---------------------------- MODULE Spec2Model ----------------------------
(***************************************************************************)
(* A model of alembic-views: the view comparator of autogenerate.py        *)
(* (reflection, normalisation, diff) and the three migrate operations of   *)
(* operations.py (construction, reversal, forward execution, rendering).   *)
(*                                                                         *)
(* A text (a Python str holding SQL) is a sequence of characters, each a   *)
(* one-character string; the keywords the SQLite normaliser matches as a   *)
(* whole ("CREATE VIEW ", " AS ") are single elements.  Python's None is   *)
(* the reserved name None where a schema is expected and the reserved      *)
(* text NoText where a definition is expected.                             *)
(***************************************************************************)
EXTENDS Integers, Sequences, FiniteSets, TLC

VARIABLES
    dialect,        \* autogen_context.dialect.name, operations.get_bind().engine.name
    metadata,       \* autogen_context.metadata.info["views"]: ViewKey -> text as compiled
    catalog,        \* the database's views: <<schemaname, viewname>> -> stored text
    upgrade_ops,    \* upgrade_ops.ops
    statements,     \* what was sent to the connection: catalog queries and DDL
    outcome,        \* the last call: its name, its locals, what it returned or raised
    passes,         \* compare_views passes made (the host makes one per autogenerate run)
    views,          \* the database as a mapping ViewKey -> definition, during a migration
    applied,        \* indices of upgrade_ops applied to views
    undone,         \* how many of the reversed operations were applied to views
    operation,      \* the operation object at hand
    original,       \* the operation object as first constructed
    reversals,      \* how many times reverse() was taken from original to operation
    definition,     \* a raw definition text handed to a normaliser
    normalised      \* what the normaliser returned

vars == <<dialect, metadata, catalog, upgrade_ops, statements, outcome, passes,
          views, applied, undone, operation, original, reversals, definition,
          normalised>>

---------------------------------------------------------------------------
(* Bounds *)

\* longest raw definition handed to a normaliser
MaxLen == 5
\* most views, declared and in the catalog together
MaxViews == 3
\* most reversals taken of one operation
MaxReversals == 3

---------------------------------------------------------------------------
(* Python values *)

None == "None"
NoText == <<"None">>

\* bool(x) of a str | None holding a name
Truthy(x) == x # None /\ x # ""

\* bool(x) of a str | None holding a text
TruthyText(x) == x # NoText /\ x # <<>>

---------------------------------------------------------------------------
(* Texts and the normalisers *)

Whitespace == {" ", "\n"}
Lower == {"a", "b"}
Alphabet == {"a", " ", "\n", ";", ":"}

RECURSIVE TextsOfLen(_)
TextsOfLen(n) ==
    IF n = 0 THEN {<<>>}
    ELSE {<<c>> \o t : c \in Alphabet, t \in TextsOfLen(n - 1)}

Texts == UNION {TextsOfLen(n) : n \in 0..MaxLen}

\* str.lstrip()
RECURSIVE LStrip(_)
LStrip(s) ==
    IF s # <<>> /\ Head(s) \in Whitespace THEN LStrip(Tail(s)) ELSE s

\* str.rstrip(chars)
RECURSIVE RStripChars(_, _)
RStripChars(s, chars) ==
    IF s # <<>> /\ s[Len(s)] \in chars
    THEN RStripChars(SubSeq(s, 1, Len(s) - 1), chars)
    ELSE s

\* str.strip()
Strip(s) == RStripChars(LStrip(s), Whitespace)

\* the longest prefix of s made of characters of cs
RECURSIVE RunLen(_, _)
RunLen(s, cs) ==
    IF s # <<>> /\ Head(s) \in cs THEN 1 + RunLen(Tail(s), cs) ELSE 0

DropFirst(s, n) == SubSeq(s, n + 1, Len(s))

\* re.sub("\n *", rep, s)
RECURSIVE SubNewlineRuns(_, _)
SubNewlineRuns(s, rep) ==
    IF s = <<>> THEN <<>>
    ELSE IF Head(s) = "\n"
         THEN rep \o SubNewlineRuns(DropFirst(Tail(s), RunLen(Tail(s), {" "})), rep)
         ELSE <<Head(s)>> \o SubNewlineRuns(Tail(s), rep)

\* re.sub("::[a-z]+", "", s)
RECURSIVE SubCasts(_)
SubCasts(s) ==
    IF s = <<>> THEN <<>>
    ELSE IF /\ Len(s) >= 3
            /\ s[1] = ":"
            /\ s[2] = ":"
            /\ s[3] \in Lower
         THEN SubCasts(DropFirst(s, 2 + RunLen(DropFirst(s, 2), Lower)))
         ELSE <<Head(s)>> \o SubCasts(Tail(s))

\* str.replace("\n", "")
RECURSIVE DeleteNewlines(_)
DeleteNewlines(s) ==
    IF s = <<>> THEN <<>>
    ELSE IF Head(s) = "\n" THEN DeleteNewlines(Tail(s))
         ELSE <<Head(s)>> \o DeleteNewlines(Tail(s))

\* the replacement deleting the run instead
NewlineDeleted == <<>>

\* the replacement of re.sub("\n *", " ", definition)
NewlineReplacement == <<" ">>

normalise_postgresql(d) ==
    SubCasts(SubNewlineRuns(RStripChars(Strip(d), {";"}), NewlineReplacement))

CreateViewKeyword == {"CREATE VIEW ", "create view "}
AsKeyword == " AS "
HasSpace == Whitespace \cup CreateViewKeyword \cup {AsKeyword}

\* how many leading elements "^CREATE VIEW \S+ AS " (re.I) matches, 0 for no match
CreatePrefixLen(s) ==
    IF s # <<>> /\ Head(s) \in CreateViewKeyword
    THEN LET n == RunLen(Tail(s), {s[i] : i \in 1..Len(s)} \ HasSpace)
         IN  IF n >= 1 /\ Len(s) >= n + 2 /\ s[n + 2] = AsKeyword
             THEN n + 2 ELSE 0
    ELSE 0

normalise_sqlite(d) == DeleteNewlines(DropFirst(d, CreatePrefixLen(d)))

\* str(v.compile()).replace("\n", "")
CompileDeclared(v) == DeleteNewlines(v)

---------------------------------------------------------------------------
(* operations.py: the operation objects *)

CreateViewOp(name, defn, schema) ==
    [kind |-> "create_view", name |-> name, definition |-> defn, schema |-> schema]

ReplaceViewOp(name, defn, schema, drop, old_definition) ==
    [kind |-> "replace_view", name |-> name, definition |-> defn, schema |-> schema,
     drop |-> drop, old_definition |-> old_definition]

DropViewOp(name, schema, old_definition) ==
    [kind |-> "drop_view", name |-> name, schema |-> schema,
     old_definition |-> old_definition]

\* CreateViewOp.reverse
CreateReverse(op) == DropViewOp(op.name, op.schema, NoText)

\* the assert of ReplaceViewOp.reverse and of DropViewOp.reverse
AssertOldDefinition(op) == TruthyText(op.old_definition)

\* ReplaceViewOp.reverse, past its assert
ReplaceReverse(op) ==
    ReplaceViewOp(op.name, op.old_definition, op.schema, FALSE, op.definition)

\* DropViewOp.reverse, past its assert
DropReverse(op) == CreateViewOp(op.name, op.old_definition, op.schema)

\* whether op.reverse() returns (TRUE) or raises AssertionError (FALSE)
ReverseReturns(op) == op.kind = "create_view" \/ AssertOldDefinition(op)

Reverse(op) ==
    CASE op.kind = "create_view"  -> CreateReverse(op)
      [] op.kind = "replace_view" -> ReplaceReverse(op)
      [] op.kind = "drop_view"    -> DropReverse(op)

---------------------------------------------------------------------------
(* operations.py: forward execution *)

\* identifier_preparer.quote
Quote(x) == [quoted |-> x]

\* the name each implementation builds
QualifiedName(op) ==
    IF Truthy(op.schema) THEN <<Quote(op.schema), Quote(op.name)>>
    ELSE <<Quote(op.name)>>

Statement(sql, name, defn) == [sql |-> sql, name |-> name, definition |-> defn]

create_view(op) ==
    <<Statement("CREATE VIEW", QualifiedName(op), op.definition)>>

\* the test without the drop flag
DropAndCreateOnSqliteOnly(op, engine) == engine = "sqlite"

\* the test of replace_view
DropAndCreate(op, engine) == op.drop \/ engine = "sqlite"

replace_view(op, engine) ==
    IF DropAndCreate(op, engine)
    THEN <<Statement("DROP VIEW", QualifiedName(op), NoText),
           Statement("CREATE VIEW", QualifiedName(op), op.definition)>>
    ELSE <<Statement("CREATE OR REPLACE VIEW", QualifiedName(op), op.definition)>>

drop_view(op) == <<Statement("DROP VIEW", QualifiedName(op), NoText)>>

\* operations.invoke(op): the implementation registered for op's class
Implementation(op, engine) ==
    CASE op.kind = "create_view"  -> create_view(op)
      [] op.kind = "replace_view" -> replace_view(op, engine)
      [] op.kind = "drop_view"    -> drop_view(op)

---------------------------------------------------------------------------
(* operations.py: rendering, and running what was rendered *)

Quotes == <<"'", "'", "'">>
SyntaxError == <<"SyntaxError">>

\* the triple-quoted {operation.definition} of the renderers' f-strings
TripleQuoted(defn) == Quotes \o defn \o Quotes

\* the character a backslash escape stands for in a Python string literal
Escape(c) == IF c = "a" THEN <<"BEL">> ELSE <<c>>

\* Python reading adjacent string literals: their value, or SyntaxError
RECURSIVE LexLiterals(_, _), LexBody(_, _, _)
LexLiterals(s, acc) ==
    IF s = <<>> THEN acc
    ELSE IF Len(s) >= 3 /\ SubSeq(s, 1, 3) = Quotes THEN LexBody(DropFirst(s, 3), TRUE, acc)
    ELSE IF Head(s) = "'" THEN LexBody(Tail(s), FALSE, acc)
    ELSE SyntaxError
LexBody(s, triple, acc) ==
    IF s = <<>> THEN SyntaxError
    ELSE IF Head(s) = "\\"
         THEN IF Len(s) < 2 THEN SyntaxError
              ELSE LexBody(DropFirst(s, 2), triple, acc \o Escape(s[2]))
    ELSE IF triple /\ Len(s) >= 3 /\ SubSeq(s, 1, 3) = Quotes
         THEN LexLiterals(DropFirst(s, 3), acc)
    ELSE IF ~triple /\ Head(s) = "'" THEN LexLiterals(Tail(s), acc)
    ELSE LexBody(Tail(s), triple, acc \o <<Head(s)>>)

EvalLiteral(text) == LexLiterals(text, <<>>)

\* a rendered call: the entry point and the arguments its text spells out
\* ({name!r} and schema={schema!r} read back as the values they were)
render_create_view(op) ==
    [entry |-> "create_view", name |-> op.name,
     definition |-> TripleQuoted(op.definition), schema |-> op.schema]

render_replace_view(op) ==
    [entry |-> "replace_view", name |-> op.name,
     definition |-> TripleQuoted(op.definition), schema |-> op.schema]

render_drop_view(op) ==
    [entry |-> "drop_view", name |-> op.name, schema |-> op.schema]

Render(op) ==
    CASE op.kind = "create_view"  -> render_create_view(op)
      [] op.kind = "replace_view" -> render_replace_view(op)
      [] op.kind = "drop_view"    -> render_drop_view(op)

\* the default of replace_view's drop parameter
DefaultDrop == FALSE

\* the operation the entry point (a classmethod) builds from a rendered call
EntryPointOp(call) ==
    CASE call.entry = "create_view" ->
            CreateViewOp(call.name, EvalLiteral(call.definition), call.schema)
      [] call.entry = "replace_view" ->
            ReplaceViewOp(call.name, EvalLiteral(call.definition), call.schema,
                          DefaultDrop, NoText)
      [] call.entry = "drop_view" ->
            DropViewOp(call.name, call.schema, NoText)

\* whether the script holding the call compiles
ScriptCompiles(call) ==
    call.entry = "drop_view" \/ EvalLiteral(call.definition) # SyntaxError

---------------------------------------------------------------------------
(* autogenerate.py: reflection *)

\* a table that has a reflector for every dialect
ReflectAnyDialect == {"sqlite", "postgresql", "mysql"}

REFLECT_DIALECT == {"sqlite", "postgresql"}
Dialects == REFLECT_DIALECT \cup {"mysql"}

\* autogen_context.dialect.default_schema_name
DefaultSchemaName(d) ==
    CASE d = "postgresql" -> "public"
      [] d = "sqlite"     -> "main"
      [] OTHER            -> "mysql"

Names == {"v1", "v2"}
DeclaredSchemas == {None, "public", "other"}
ViewKeys == DeclaredSchemas \X Names
CatalogKeys(d) == {DefaultSchemaName(d), "other"} \X Names

\* what str(v.compile()) gives for the declared queries
DeclaredTexts == {<<"a", "\n">>, <<"b">>}

\* what the catalog holds for a view: pg_views.definition, sqlite_master.sql
CatalogTexts(d) ==
    IF d = "sqlite"
    THEN {<<"CREATE VIEW ", "v", AsKeyword, "a">>,
          <<"create view ", "v", AsKeyword, "b", "\n">>}
    ELSE {<<" ", "a", ";">>, <<"b", ":", ":", "a">>}

\* the mappings from at most max keys of K to V
Mappings(K, V, max) ==
    UNION {[S -> V] : S \in {T \in SUBSET K : Cardinality(T) <= max}}

Size(m) == Cardinality(DOMAIN m)

Range(s) == {s[i] : i \in DOMAIN s}

Query(sql, schemas) == [sql |-> sql, schemas |-> schemas]

\* the catalog queries reflect_sqlite sends: one per schema
SqliteQueries(schemas) ==
    [i \in DOMAIN schemas |->
        Query("SELECT name, sql FROM sqlite_master WHERE type='view'",
              <<IF Truthy(schemas[i]) THEN schemas[i] ELSE "">>)]

\* the database whose sqlite_master the query of a schema reads
SqliteDatabase(schema) == IF Truthy(schema) THEN schema ELSE "main"

reflect_sqlite(cat, schemas) ==
    LET keys == {k \in Range(schemas) \X Names :
                    <<SqliteDatabase(k[1]), k[2]>> \in DOMAIN cat}
    IN  [k \in keys |-> normalise_sqlite(cat[<<SqliteDatabase(k[1]), k[2]>>])]

\* the schemas parameter of reflect_postgresql's query
PostgresqlSchemas(schemas, default) ==
    [i \in DOMAIN schemas |-> IF schemas[i] = None THEN default ELSE schemas[i]]

PostgresqlQueries(schemas, default) ==
    <<Query("SELECT schemaname, viewname, definition FROM pg_views",
            PostgresqlSchemas(schemas, default))>>

\* the key as the catalog reports it
PostgresqlKeyAsReported(row, default) == <<row[1], row[2]>>

\* the key reflect_postgresql gives a row
PostgresqlKey(row, default) ==
    <<IF row[1] = default THEN None ELSE row[1], row[2]>>

reflect_postgresql(cat, schemas, default) ==
    LET rows == {r \in DOMAIN cat : r[1] \in Range(PostgresqlSchemas(schemas, default))}
    IN  [k \in {PostgresqlKey(r, default) : r \in rows} |->
            normalise_postgresql(
                cat[CHOOSE r \in rows : PostgresqlKey(r, default) = k])]

Reflect(d, cat, schemas) ==
    IF d = "sqlite" THEN reflect_sqlite(cat, schemas)
    ELSE reflect_postgresql(cat, schemas, DefaultSchemaName(d))

ReflectQueries(d, schemas) ==
    IF d = "sqlite" THEN SqliteQueries(schemas)
    ELSE PostgresqlQueries(schemas, DefaultSchemaName(d))

---------------------------------------------------------------------------
(* autogenerate.py: compare_views *)

\* the name filters the host may be configured with
Filters == {"all", "not_v1"}

\* autogen_context.run_name_filters(name, "view", {"schema_name": schema})
run_name_filters(f, name, schema) == f = "all" \/ name # "v1"

\* the orders in which a set may be iterated
Orders(S) ==
    {o \in [1..Cardinality(S) -> S] : \A i, j \in DOMAIN o : o[i] = o[j] => i = j}

Added(sqla, db) == DOMAIN sqla \ DOMAIN db
Removed(sqla, db) == DOMAIN db \ DOMAIN sqla
Common(sqla, db) == DOMAIN sqla \cap DOMAIN db

\* a third loop that does not compare the definitions
ChangedAlways(sqla, db, k) == TRUE

\* the test of the third loop
Changed(sqla, db, k) == sqla[k] # db[k]

\* a Drop that does not capture the reflected definition
RemovedOpWithoutOld(sqla, db, k) == DropViewOp(k[2], k[1], NoText)

\* a Replace with the declared and the reflected definition swapped
ChangedOpSwapped(sqla, db, k) == ReplaceViewOp(k[2], db[k], k[1], FALSE, sqla[k])

\* the operations the three loops construct
AddedOp(sqla, db, k) == CreateViewOp(k[2], sqla[k], k[1])
RemovedOp(sqla, db, k) == DropViewOp(k[2], k[1], db[k])
ChangedOp(sqla, db, k) == ReplaceViewOp(k[2], sqla[k], k[1], FALSE, db[k])

\* what one loop appends, iterating its set in the given order
RECURSIVE Loop(_, _, _, _, _)
Loop(loop, order, f, sqla, db) ==
    IF order = <<>> THEN <<>>
    ELSE LET k == Head(order)
             rest == Loop(loop, Tail(order), f, sqla, db)
         IN  IF ~run_name_filters(f, k[2], k[1]) THEN rest
             ELSE CASE loop = "added"   -> <<AddedOp(sqla, db, k)>> \o rest
                    [] loop = "removed" -> <<RemovedOp(sqla, db, k)>> \o rest
                    [] loop = "changed" ->
                         IF Changed(sqla, db, k)
                         THEN <<ChangedOp(sqla, db, k)>> \o rest ELSE rest

\* the three loops of compare_views
Loops(o1, o2, o3, f, sqla, db) ==
    Loop("added", o1, f, sqla, db) \o Loop("removed", o2, f, sqla, db)
        \o Loop("changed", o3, f, sqla, db)

\* sqla_views of compare_views
SqlaViews(md) == [k \in DOMAIN md |-> CompileDeclared(md[k])]

\* the schemas the host hands the comparator: the default schema (None) always,
\* the others when it is configured to include them
SchemaLists == {<<None>>, <<None, "other">>}

\* an operation another comparator of the host appended before this one ran
HostOp == [kind |-> "create_table", name |-> "t", schema |-> None]

NoMapping == [k \in {} |-> <<>>]

Returned(call, pass) ==
    [call |-> call, raised |-> None, filter |-> pass.filter,
     sqla_views |-> pass.sqla_views, db_views |-> pass.db_views, first |-> pass.first]

Raised(call, error, pass) == [Returned(call, pass) EXCEPT !.raised = error]

NoPass == [filter |-> "all", sqla_views |-> NoMapping, db_views |-> NoMapping, first |-> 0]

CompareViews(schemas, f) ==
    /\ passes = 0
    /\ passes' = 1
    /\ LET sqla == SqlaViews(metadata)
           pass == [filter |-> f, sqla_views |-> sqla, db_views |-> NoMapping,
                    first |-> Len(upgrade_ops) + 1]
       IN  IF dialect \notin REFLECT_DIALECT
           THEN /\ outcome' = Raised("compare_views", "NotImplementedError", pass)
                /\ UNCHANGED <<upgrade_ops, statements, views>>
           ELSE LET db == Reflect(dialect, catalog, schemas)
                IN  /\ statements' = statements \o ReflectQueries(dialect, schemas)
                    /\ \E o1 \in Orders(Added(sqla, db)),
                          o2 \in Orders(Removed(sqla, db)),
                          o3 \in Orders(Common(sqla, db)) :
                          upgrade_ops' = upgrade_ops \o Loops(o1, o2, o3, f, sqla, db)
                    /\ outcome' = Returned("compare_views", [pass EXCEPT !.db_views = db])
                    /\ views' = db
    /\ UNCHANGED <<dialect, metadata, catalog, applied, undone, operation, original,
                   reversals, definition, normalised>>

---------------------------------------------------------------------------
(* The migration the pass proposed, run against the database taken as a     *)
(* mapping ViewKey -> definition: upgrade() applies the emitted operations, *)
(* downgrade() applies their reversals, last first.                         *)

OpKey(op) == <<op.schema, op.name>>

\* CREATE VIEW and CREATE OR REPLACE VIEW (or DROP VIEW, CREATE VIEW): the view
\* is there with the definition; DROP VIEW: it is gone
ApplyOp(m, op) ==
    IF op.kind = "drop_view"
    THEN [k \in DOMAIN m \ {OpKey(op)} |-> m[k]]
    ELSE [k \in DOMAIN m \cup {OpKey(op)} |->
            IF k = OpKey(op) THEN op.definition ELSE m[k]]

\* the indices in upgrade_ops of what the pass appended
Emitted == outcome.first..Len(upgrade_ops)

PassReturned == passes = 1 /\ outcome.raised = None

Upgrade(i) ==
    /\ PassReturned
    /\ undone = 0
    /\ i \in Emitted \ applied
    /\ views' = ApplyOp(views, upgrade_ops[i])
    /\ applied' = applied \cup {i}
    /\ outcome' = [outcome EXCEPT !.call = "upgrade"]
    /\ UNCHANGED <<dialect, metadata, catalog, upgrade_ops, statements, passes, undone,
                   operation, original, reversals, definition, normalised>>

Downgrade ==
    /\ PassReturned
    /\ applied = Emitted
    /\ undone < Cardinality(Emitted)
    /\ LET op == upgrade_ops[Len(upgrade_ops) - undone]
       IN  IF ReverseReturns(op)
           THEN /\ views' = ApplyOp(views, Reverse(op))
                /\ undone' = undone + 1
                /\ outcome' = [outcome EXCEPT !.call = "downgrade"]
           ELSE /\ outcome' = [outcome EXCEPT !.call = "downgrade",
                                              !.raised = "AssertionError"]
                /\ UNCHANGED <<views, undone>>
    /\ UNCHANGED <<dialect, metadata, catalog, upgrade_ops, statements, passes, applied,
                   operation, original, reversals, definition, normalised>>

\* values of the variables a specification does not use
NoOperation == [kind |-> "none"]

Init ==
    /\ dialect \in Dialects
    /\ metadata \in Mappings(ViewKeys, DeclaredTexts, MaxViews)
    /\ catalog \in Mappings(CatalogKeys(dialect), CatalogTexts(dialect),
                            MaxViews - Size(metadata))
    /\ upgrade_ops = <<HostOp>>
    /\ statements = <<>>
    /\ outcome = Returned("none", NoPass)
    /\ passes = 0
    /\ views = NoMapping
    /\ applied = {}
    /\ undone = 0
    /\ operation = NoOperation
    /\ original = NoOperation
    /\ reversals = 0
    /\ definition = <<>>
    /\ normalised = NoText

Next ==
    \/ \E schemas \in SchemaLists, f \in Filters : CompareViews(schemas, f)
    \/ \E i \in 1..Len(upgrade_ops) : Upgrade(i)
    \/ Downgrade

Spec == Init /\ [][Next]_vars

---------------------------------------------------------------------------
(* The operation objects on their own: constructed by the comparator or by  *)
(* the author of a migration script, then reversed, executed, or rendered   *)
(* into a script that is run.                                               *)

OpNames == {"v1"}
OpSchemas == {None, "other"}
\* definitions: empty, plain, ending in a quote, holding a backslash
OpTexts == {<<>>, <<"a">>, <<"a", "'">>, <<"\\", "a">>}

ConstructedOps ==
    {CreateViewOp(n, d, s) : n \in OpNames, d \in OpTexts, s \in OpSchemas}
    \cup {ReplaceViewOp(n, d[1], s, b, d[2]) :
            n \in OpNames, d \in OpTexts \X (OpTexts \cup {NoText}),
            s \in OpSchemas, b \in BOOLEAN}
    \cup {DropViewOp(n, s, o) : n \in OpNames, s \in OpSchemas, o \in OpTexts \cup {NoText}}

Called(call, error, input) == [call |-> call, raised |-> error, input |-> input]

\* operation.reverse()
ReverseStep ==
    /\ reversals < MaxReversals
    /\ outcome.raised = None
    /\ outcome.call \in {"none", "reverse"}
    /\ IF ReverseReturns(operation)
       THEN /\ operation' = Reverse(operation)
            /\ reversals' = reversals + 1
            /\ outcome' = Called("reverse", None, operation)
       ELSE /\ outcome' = Called("reverse", "AssertionError", operation)
            /\ UNCHANGED <<operation, reversals>>
    /\ UNCHANGED <<dialect, metadata, catalog, upgrade_ops, statements, passes, views,
                   applied, undone, original, definition, normalised>>

\* operations.invoke(operation)
Invoke ==
    /\ outcome.raised = None
    /\ outcome.call \in {"none", "reverse"}
    /\ statements' = statements \o Implementation(operation, dialect)
    /\ outcome' = Called("invoke", None, operation)
    /\ UNCHANGED <<dialect, metadata, catalog, upgrade_ops, passes, views, applied,
                   undone, operation, original, reversals, definition, normalised>>

\* the renderer's text for the operation, put in a script, and the script run
RunScript ==
    /\ outcome.raised = None
    /\ outcome.call \in {"none", "reverse"}
    /\ LET call == Render(operation)
       IN  IF ScriptCompiles(call)
           THEN /\ statements' = statements \o Implementation(EntryPointOp(call), dialect)
                /\ outcome' = Called("script", None, operation)
           ELSE /\ outcome' = Called("script", "SyntaxError", operation)
                /\ UNCHANGED statements
    /\ UNCHANGED <<dialect, metadata, catalog, upgrade_ops, passes, views, applied,
                   undone, operation, original, reversals, definition, normalised>>

InitOps ==
    /\ dialect \in Dialects
    /\ operation \in ConstructedOps
    /\ original = operation
    /\ reversals = 0
    /\ statements = <<>>
    /\ outcome = Called("none", None, NoOperation)
    /\ metadata = NoMapping
    /\ catalog = NoMapping
    /\ upgrade_ops = <<>>
    /\ passes = 0
    /\ views = NoMapping
    /\ applied = {}
    /\ undone = 0
    /\ definition = <<>>
    /\ normalised = NoText

NextOps == ReverseStep \/ Invoke \/ RunScript

SpecOps == InitOps /\ [][NextOps]_vars

---------------------------------------------------------------------------
(* The normalisers on their own, on every text of the alphabet.             *)

NormalisePostgresql ==
    /\ outcome.call = "none"
    /\ normalised' = normalise_postgresql(definition)
    /\ outcome' = Called("normalise_postgresql", None, NoOperation)
    /\ UNCHANGED <<dialect, metadata, catalog, upgrade_ops, statements, passes, views,
                   applied, undone, operation, original, reversals, definition>>

NormaliseSqlite ==
    /\ outcome.call = "none"
    /\ normalised' = normalise_sqlite(definition)
    /\ outcome' = Called("normalise_sqlite", None, NoOperation)
    /\ UNCHANGED <<dialect, metadata, catalog, upgrade_ops, statements, passes, views,
                   applied, undone, operation, original, reversals, definition>>

Compile ==
    /\ outcome.call = "none"
    /\ normalised' = CompileDeclared(definition)
    /\ outcome' = Called("compile", None, NoOperation)
    /\ UNCHANGED <<dialect, metadata, catalog, upgrade_ops, statements, passes, views,
                   applied, undone, operation, original, reversals, definition>>

InitNorm ==
    /\ definition \in Texts
    /\ normalised = NoText
    /\ outcome = Called("none", None, NoOperation)
    /\ dialect = "postgresql"
    /\ metadata = NoMapping
    /\ catalog = NoMapping
    /\ upgrade_ops = <<>>
    /\ statements = <<>>
    /\ passes = 0
    /\ views = NoMapping
    /\ applied = {}
    /\ undone = 0
    /\ operation = NoOperation
    /\ original = NoOperation
    /\ reversals = 0

NextNorm == NormalisePostgresql \/ NormaliseSqlite \/ Compile

SpecNorm == InitNorm /\ [][NextNorm]_vars

---------------------------------------------------------------------------
(* Properties of the comparison pass (Spec) *)

\* what the pass appended to upgrade_ops
Appended == SubSeq(upgrade_ops, outcome.first, Len(upgrade_ops))

Accepted(k) == run_name_filters(outcome.filter, k[2], k[1])

\* C1: one operation per accepted key that was added, removed or changed
ExpectedOps ==
    LET D == outcome.sqla_views
        R == outcome.db_views
    IN  {CreateViewOp(k[2], D[k], k[1]) :
            k \in {x \in DOMAIN D \ DOMAIN R : Accepted(x)}}
        \cup {DropViewOp(k[2], k[1], R[k]) :
            k \in {x \in DOMAIN R \ DOMAIN D : Accepted(x)}}
        \cup {ReplaceViewOp(k[2], D[k], k[1], FALSE, R[k]) :
            k \in {x \in DOMAIN D \cap DOMAIN R : Accepted(x) /\ D[x] # R[x]}}

\* C1: with D the declared and R the reflected mapping of a pass on a supported
\* dialect, the pass appends exactly a Create(name, D[k], schema) for each accepted
\* k in D only, a Drop(name, schema, old_definition=R[k]) for each accepted k in R
\* only, a Replace(name, D[k], schema, old_definition=R[k]) for each accepted k in
\* both with D[k] # R[k], nothing else, and no two operations for one key.
C1_OneOperationPerDifference ==
    PassReturned =>
        /\ outcome.sqla_views = SqlaViews(metadata)
        /\ Range(Appended) = ExpectedOps
        /\ \A i, j \in DOMAIN Appended :
              OpKey(Appended[i]) = OpKey(Appended[j]) => i = j

\* C1: a pass that appended a Create and a Drop while its filter rejected a key
C1_Witness ==
    /\ outcome.call = "compare_views"
    /\ outcome.raised = None
    /\ outcome.filter = "not_v1"
    /\ {op.kind : op \in Range(Appended)} = {"create_view", "drop_view"}
    /\ \E k \in DOMAIN outcome.sqla_views \cup DOMAIN outcome.db_views : ~Accepted(k)

\* C5: a pass on an unsupported dialect raises, sends no query and leaves the
\* operations list as it was; a pass on a supported dialect only appends to it.
C5_UnsupportedDialectFailsFast ==
    [][passes' # passes =>
         IF dialect \notin {"sqlite", "postgresql"}
         THEN /\ outcome'.raised = "NotImplementedError"
              /\ upgrade_ops' = upgrade_ops
              /\ statements' = statements
         ELSE /\ outcome'.raised = None
              /\ Len(upgrade_ops') >= Len(upgrade_ops)
              /\ SubSeq(upgrade_ops', 1, Len(upgrade_ops)) = upgrade_ops]_vars

\* C5: a pass that raised, with views declared and in the catalog, the list and
\* the connection untouched
C5_Witness ==
    /\ outcome.call = "compare_views"
    /\ outcome.raised = "NotImplementedError"
    /\ Size(metadata) > 0
    /\ Size(catalog) > 0
    /\ upgrade_ops = <<HostOp>>
    /\ statements = <<>>

\* what C7 says of the rows, the query and the matching of default-schema views
ReflectsDefaultAsAbsent ==
    LET default == DefaultSchemaName(dialect)
        R == outcome.db_views
    IN  /\ \A r \in DOMAIN catalog :
              /\ r[1] = default =>
                    /\ <<None, r[2]>> \in DOMAIN R
                    /\ R[<<None, r[2]>>] = normalise_postgresql(catalog[r])
              /\ (r[1] # default /\ <<r[1], r[2]>> \in DOMAIN R) =>
                    R[<<r[1], r[2]>>] = normalise_postgresql(catalog[r])
        /\ \A q \in Range(statements) : None \notin Range(q.schemas)
        /\ \A n \in Names :
              (/\ <<None, n>> \in DOMAIN metadata
               /\ <<default, n>> \in DOMAIN catalog
               /\ SqlaViews(metadata)[<<None, n>>]
                    = normalise_postgresql(catalog[<<default, n>>]))
              => \A op \in Range(Appended) : OpKey(op) # <<None, n>>
        /\ \A k \in DOMAIN R : k[1] # default

\* C7 as claimed: on PostgreSQL a catalog row of the default schema is keyed by an
\* absent schema and any other by its own, the default-schema name is queried in
\* place of the absent entry, a declared (absent, name) matching a row
\* (default, name) of equal normalised definition yields no operation, and no
\* reflected key or emitted operation carries the default-schema name as its schema.
C7_NoOperationNamesDefaultSchema ==
    (PassReturned /\ dialect = "postgresql") =>
        /\ ReflectsDefaultAsAbsent
        /\ \A op \in Range(Appended) : op.schema # DefaultSchemaName(dialect)

\* C7 as amended: the same of the rows, the query, the matching and the reflected
\* keys; of the emitted operations, no Drop and no Replace carries the
\* default-schema name as its schema, and a Create carries the schema of its
\* declared key as declared.
C7_ReflectedDefaultSchemaIsAbsent ==
    (PassReturned /\ dialect = "postgresql") =>
        /\ ReflectsDefaultAsAbsent
        /\ \A op \in Range(Appended) :
              IF op.kind = "create_view"
              THEN <<op.schema, op.name>> \in DOMAIN metadata
              ELSE op.schema # DefaultSchemaName(dialect)

\* C7: a PostgreSQL pass over a default-schema row that matches its declared view
\* (no operation) and a default-schema row that is not declared (a Drop)
C7_Witness ==
    /\ outcome.call = "compare_views"
    /\ outcome.raised = None
    /\ dialect = "postgresql"
    /\ \E n \in Names :
          /\ <<None, n>> \in DOMAIN metadata
          /\ <<"public", n>> \in DOMAIN catalog
          /\ outcome.sqla_views[<<None, n>>] = outcome.db_views[<<None, n>>]
    /\ \E op \in Range(Appended) : op.kind = "drop_view" /\ op.schema = None

\* C9: with a filter that accepts every key, the operations a pass emitted, applied
\* in any order to the reflected mapping, give exactly the declared mapping, and a
\* second pass against that database appends nothing.
C9_UpgradeConverges ==
    (PassReturned /\ outcome.filter = "all" /\ applied = Emitted /\ undone = 0) =>
        /\ views = outcome.sqla_views
        /\ \A o1 \in Orders(Added(outcome.sqla_views, views)),
              o2 \in Orders(Removed(outcome.sqla_views, views)),
              o3 \in Orders(Common(outcome.sqla_views, views)) :
              Loops(o1, o2, o3, "all", outcome.sqla_views, views) = <<>>

\* C9: a migration of a Drop and a Replace, both applied
C9_Witness ==
    /\ outcome.call = "upgrade"
    /\ outcome.filter = "all"
    /\ applied = Emitted
    /\ undone = 0
    /\ {upgrade_ops[i].kind : i \in applied} = {"drop_view", "replace_view"}
    /\ views # outcome.db_views

\* C10: every operation a pass emits can be reversed, and applying the emitted
\* operations and then their reversals restores the reflected mapping.
C10_DowngradeRestores ==
    PassReturned =>
        /\ \A op \in Range(Appended) : ReverseReturns(op)
        /\ (applied = Emitted /\ undone = Cardinality(Emitted)) =>
              views = outcome.db_views

\* C10: a migration of a Create and a Replace, applied and then undone
C10_Witness ==
    /\ outcome.call = "downgrade"
    /\ outcome.raised = None
    /\ applied = Emitted
    /\ undone = Cardinality(Emitted)
    /\ {upgrade_ops[i].kind : i \in applied} = {"create_view", "replace_view"}

---------------------------------------------------------------------------
(* Properties of the operation objects (SpecOps) *)

SameOperation(a, b) ==
    /\ a.kind = b.kind
    /\ a.name = b.name
    /\ a.schema = b.schema
    /\ (a.kind # "drop_view" => a.definition = b.definition)

\* C2: for every Create, and every Replace or Drop constructed with an
\* old_definition, the first two reversals raise nothing and the second gives an
\* operation of the same kind, name, schema and definition as the first one; the
\* reversal of a Create is a Drop whose old_definition is the Create's definition.
C2_DoubleReversalIsIdentity ==
    (original.kind = "create_view" \/ original.old_definition # NoText) =>
        /\ (outcome.call = "reverse" /\ outcome.raised # None) => reversals >= 2
        /\ reversals = 2 => SameOperation(operation, original)
        /\ (reversals = 1 /\ original.kind = "create_view") =>
              /\ operation.kind = "drop_view"
              /\ operation.old_definition = original.definition

\* C3: reversing a Drop or Replace whose old_definition is absent raises and gives
\* no operation; reversing one given an old_definition, any string, returns:
\* Create(name, old_definition, schema) for a Drop, and for a Replace a Replace of
\* the same name and schema with definition and old_definition swapped.
C3_ReverseNeedsOldDefinition ==
    (outcome.call = "reverse" /\ outcome.input.kind # "create_view") =>
        LET op == outcome.input
        IN  IF op.old_definition = NoText
            THEN outcome.raised = "AssertionError" /\ operation = op
            ELSE /\ outcome.raised = None
                 /\ operation.name = op.name
                 /\ operation.schema = op.schema
                 /\ operation.definition = op.old_definition
                 /\ IF op.kind = "drop_view"
                    THEN operation.kind = "create_view"
                    ELSE /\ operation.kind = "replace_view"
                         /\ operation.old_definition = op.definition

\* C4: executing a Replace sends DROP VIEW and then CREATE VIEW of one qualified
\* name, and nothing else, when its drop flag is set or the engine is sqlite; in
\* every other case it sends one CREATE OR REPLACE VIEW and no DROP.
C4_ReplaceForwardExecution ==
    (outcome.call = "invoke" /\ operation.kind = "replace_view") =>
        IF operation.drop \/ dialect = "sqlite"
        THEN /\ Len(statements) = 2
             /\ statements[1].sql = "DROP VIEW"
             /\ statements[2].sql = "CREATE VIEW"
             /\ statements[1].name = statements[2].name
             /\ statements[2].definition = operation.definition
        ELSE /\ Len(statements) = 1
             /\ statements[1].sql = "CREATE OR REPLACE VIEW"
             /\ statements[1].definition = operation.definition

\* C4: a Replace with the drop flag set, executed on PostgreSQL in two statements
C4_Witness ==
    /\ outcome.call = "invoke"
    /\ operation.kind = "replace_view"
    /\ operation.drop
    /\ dialect = "postgresql"
    /\ Len(statements) = 2
    /\ statements[1].name = <<Quote("other"), Quote("v1")>>

\* C6: running the call the renderer emits for an operation sends the statements
\* that executing the operation sends.
C6_RenderedCallRoundTrips ==
    outcome.call = "script" =>
        /\ outcome.raised = None
        /\ statements = Implementation(operation, dialect)

---------------------------------------------------------------------------
(* Properties of the PostgreSQL normaliser (SpecNorm) *)

\* the raw text without surrounding whitespace and trailing semicolons
Trimmed(d) == RStripChars(Strip(d), {";"})

\* a text laid out as a compiled query is: each newline and the indentation after
\* it written as a space and a newline
RECURSIVE CompiledLayout(_)
CompiledLayout(s) ==
    IF s = <<>> THEN <<>>
    ELSE IF Head(s) = "\n"
         THEN <<" ", "\n">> \o CompiledLayout(DropFirst(Tail(s), RunLen(Tail(s), {" "})))
         ELSE <<Head(s)>> \o CompiledLayout(Tail(s))

============================================================================
